---- MODULE Spec2Model ----
(***************************************************************************)
(* Model of the natural-language-to-SQL generation endpoint of ChatDB      *)
(* (src/lambda/nl2sql/lambda_function.py): the handler _handle and the     *)
(* three-call protocol of XAIClient.generate_sql.                          *)
(*                                                                         *)
(* Strings are sequences of tokens.  A token is either one character of    *)
(* free text (a completion's content, the user's instruction) or one       *)
(* string literal of the source kept whole (<<"API request failed">>).     *)
(* The empty string is <<>>.                                               *)
(***************************************************************************)
EXTENDS Integers, Sequences, FiniteSets, TLC

(* ---------------------------- bounds ---------------------------------- *)

\* longest content of the first completion
MaxContentLen == 3
\* longest content of the follow-up completion
MaxFollowLen == 2
\* longest "query" field of the request
MaxQueryLen == 1
\* most rows the table holds before the execution endpoint runs
MaxRows == 2

(* ------------------------- program constants -------------------------- *)

DEFAULT_DB_PORT == 5432
MAX_TOKENS == 512
\* range(13): the dots grow from none to twelve
DOT_STEPS == 13
\* range(12, -1, -1): the dots shrink from twelve to none
MOST_DOTS == 12

(* ---------------------------- alphabets ------------------------------- *)

\* characters of a completion: whitespace, double quote, backslash, the
\* sentinel letter, its lower-case form and an ordinary character
Chars == {" ", "\"", "\\", "X", "x", "S"}
\* characters of an explanation, which is only trimmed: whitespace, an
\* ordinary character and the sentinel letter
FollowChars == {" ", "e", "X"}
\* characters of an instruction
QueryChars == {" ", "q"}
\* str.strip() with no argument removes whitespace
Whitespace == {" "}

StringsUpTo(alphabet, n) == UNION {[1..k -> alphabet] : k \in 0..n}

(* --------------------------- str methods ------------------------------ *)

RECURSIVE LStripSet(_, _)
LStripSet(s, set) ==
    IF s # <<>> /\ Head(s) \in set THEN LStripSet(Tail(s), set) ELSE s

RECURSIVE RStripSet(_, _)
RStripSet(s, set) ==
    IF s # <<>> /\ s[Len(s)] \in set
    THEN RStripSet(SubSeq(s, 1, Len(s) - 1), set)
    ELSE s

\* str.strip(chars): every leading and trailing character of the set goes
StripSet(s, set) == RStripSet(LStripSet(s, set), set)

\* str.strip()
Strip(s) == StripSet(s, Whitespace)

\* str.replace('\\"', ''): left to right, non-overlapping
RECURSIVE RemoveEscapedQuotes(_)
RemoveEscapedQuotes(s) ==
    IF s = <<>> THEN <<>>
    ELSE IF Len(s) >= 2 /\ s[1] = "\\" /\ s[2] = "\""
         THEN RemoveEscapedQuotes(SubSeq(s, 3, Len(s)))
         ELSE <<Head(s)>> \o RemoveEscapedQuotes(Tail(s))

\* str.startswith(prefix)
StartsWith(s, prefix) ==
    Len(s) >= Len(prefix) /\ SubSeq(s, 1, Len(prefix)) = prefix

(* ------------------------------ inputs -------------------------------- *)

\* the "query" field of the request body: absent, present but not a string,
\* or a string
Queries ==
    {[kind |-> k, text |-> <<>>] : k \in {"missing", "nonstring"}}
    \cup {[kind |-> "string", text |-> t] : t \in StringsUpTo(QueryChars, MaxQueryLen)}

\* the "port" field: absent, a number, or a value int() rejects
Ports ==
    {[kind |-> "absent", value |-> 0],
     [kind |-> "int", value |-> DEFAULT_DB_PORT + 1],
     [kind |-> "bad", value |-> 0]}

\* the event: its body is absent, not JSON, JSON that is no object, or an
\* object with the fields above
Events ==
    {[body |-> b, query |-> [kind |-> "missing", text |-> <<>>],
      port |-> [kind |-> "absent", value |-> 0]] : b \in {"none", "badjson", "notobject"}}
    \cup {[body |-> "object", query |-> q, port |-> p] : q \in Queries, p \in Ports}

\* status codes raise_for_status() rejects
ErrorStatus == {"429", "500"}

\* schemas the execution endpoint can return
Schemas == {"banking"}

\* answers of the execution endpoint to the schema query: a transport failure,
\* a non-2xx status, a body that is not JSON, JSON that cannot be iterated as
\* rows (a number, null), rows without table_name, or the rows of a schema
SchemaResponses ==
    {[kind |-> k, status |-> "", rows |-> ""] :
        k \in {"timeout", "connect", "notjson", "notlist", "badrows"}}
    \cup {[kind |-> "status", status |-> c, rows |-> ""] : c \in ErrorStatus}
    \cup {[kind |-> "rows", status |-> "200", rows |-> s] : s \in Schemas}

\* shapes of a 2xx JSON body of the completion service that carry no text
JsonShapes ==
    {"notobject", "nochoices", "emptychoices", "choicesnotlist", "choicenotobject",
     "nomessage", "messagenotobject", "nocontent", "nullcontent"}

\* answers of the completion service, with content of at most n characters
\* of the alphabet
CompletionResponses(alphabet, n) ==
    {[kind |-> k, status |-> "", content |-> <<>>] : k \in {"timeout", "connect", "notjson"}}
    \cup {[kind |-> "status", status |-> c, content |-> <<>>] : c \in ErrorStatus}
    \cup {[kind |-> k, status |-> "200", content |-> <<>>] : k \in JsonShapes}
    \cup {[kind |-> "content", status |-> "200", content |-> t] : t \in StringsUpTo(alphabet, n)}

(* --------------------- fetch_table_structure -------------------------- *)

\* variant: raise_for_status() is left out, a non-2xx answer is returned as data
fetch_table_structure_no_raise(r) ==
    CASE r.kind \in {"timeout", "connect"} ->
            [raised |-> TRUE, error |-> <<"Failed to fetch table structure">>]
      [] r.kind = "notjson" ->
            [raised |-> TRUE, error |-> <<"Invalid schema API response format">>]
      [] OTHER ->
            [raised |-> FALSE, error |-> <<>>]

\* fetch_table_structure: the value returned, or the exception raised
fetch_table_structure(r) ==
    CASE r.kind \in {"timeout", "connect"} ->
            [raised |-> TRUE, error |-> <<"Failed to fetch table structure">>]
      [] r.kind = "status" ->
            [raised |-> TRUE, error |-> <<"Failed to fetch table structure">>]
      [] r.kind = "notjson" ->
            [raised |-> TRUE, error |-> <<"Invalid schema API response format">>]
      [] OTHER ->
            [raised |-> FALSE, error |-> <<>>]

\* get_valid_tables: iterates the rows and reads entry["table_name"]
get_valid_tables(r) ==
    LET f == fetch_table_structure(r) IN
    IF f.raised THEN f
    ELSE CASE r.kind = "notlist" -> [raised |-> TRUE, error |-> <<"object is not iterable">>]
           [] r.kind = "badrows" -> [raised |-> TRUE, error |-> <<"'table_name'">>]
           [] OTHER -> [raised |-> FALSE, error |-> <<>>]

\* variant: the reason is str(e), the text of the exception caught
SchemaFailureReasonVerbatim(e) == e

\* the reason generate_sql returns when the schema could not be loaded
SchemaFailureReason(e) == <<"Failed to fetch table structure">>

\* SYSTEM_PROMPT_TEMPLATE.format(json.dumps(table_structure, indent=2))
SystemPrompt(schema) == <<"SYSTEM_PROMPT_TEMPLATE", schema>>

(* ----------------------- XAIClient.generate_sql ----------------------- *)

\* variant: one quote at most is removed from each end
SanitizeOneLayer(text) ==
    LET t == Strip(text)
        a == IF t # <<>> /\ Head(t) = "\"" THEN Tail(t) ELSE t
        b == IF a # <<>> /\ a[Len(a)] = "\"" THEN SubSeq(a, 1, Len(a) - 1) ELSE a
    IN RemoveEscapedQuotes(b)

\* content.strip().strip('"').replace('\\"', '')
Sanitize(text) == RemoveEscapedQuotes(StripSet(Strip(text), {"\""}))

\* variant: only the exact comparison, without the prefix test
IsSentinelExact(sql_query) == sql_query = <<"X">>

\* sql_query == "X" or sql_query.startswith("X")
IsSentinel(sql_query) == sql_query = <<"X">> \/ StartsWith(sql_query, <<"X">>)

\* the follow-up prompt, an f-string around the instruction
FollowUpPrompt(nl_instruction) ==
    <<"You failed to generate an SQL query for the instruction: '">>
    \o nl_instruction
    \o <<"'. Please explain why the query could not be generated (e.g., non-existent table, invalid column, ambiguous instruction). Provide a specific, non-empty explanation.">>

\* the payload of the first completion request
FirstPayload(system_prompt, nl_instruction) ==
    [model |-> "XAI_MODEL",
     messages |-> <<[role |-> "system", content |-> system_prompt],
                    [role |-> "user", content |-> nl_instruction]>>,
     max_tokens |-> MAX_TOKENS,
     temperature |-> "0.2"]

\* variant: the assistant turn replays the sanitized text
FollowUpPayloadSanitized(system_prompt, nl_instruction, first_content) ==
    [model |-> "XAI_MODEL",
     messages |-> <<[role |-> "system", content |-> system_prompt],
                    [role |-> "user", content |-> nl_instruction],
                    [role |-> "assistant",
                     content |-> RemoveEscapedQuotes(StripSet(Strip(first_content), {"\""}))],
                    [role |-> "user", content |-> FollowUpPrompt(nl_instruction)]>>,
     max_tokens |-> MAX_TOKENS,
     temperature |-> "0.2"]

\* the payload of the follow-up request
FollowUpPayload(system_prompt, nl_instruction, first_content) ==
    [model |-> "XAI_MODEL",
     messages |-> <<[role |-> "system", content |-> system_prompt],
                    [role |-> "user", content |-> nl_instruction],
                    [role |-> "assistant", content |-> first_content],
                    [role |-> "user", content |-> FollowUpPrompt(nl_instruction)]>>,
     max_tokens |-> MAX_TOKENS,
     temperature |-> "0.2"]

\* the payload of the schema request
SchemaPayload(port) ==
    [query |-> "information_schema.columns", host |-> "DEFAULT_DB_HOST",
     dbname |-> "DEFAULT_DB_NAME", port |-> port]

Return(sql, reason) == [step |-> "return", sql |-> sql, reason |-> reason, error |-> <<>>]
Raise(error) == [step |-> "raise", sql |-> <<>>, reason |-> <<>>, error |-> error]
Continue(text) == [step |-> "continue", sql |-> text, reason |-> <<>>, error |-> <<>>]

\* variant: the HTTPStatusError clause is missing, RequestError catches it
ExceptClausesNoStatus(r) ==
    CASE r.kind \in {"status", "timeout", "connect"} -> Return(<<>>, <<"API request failed">>)
      [] r.kind = "notjson" -> Return(<<>>, <<"Invalid API response format">>)

\* variant: the messages of the RequestError and ValueError clauses exchanged
ExceptClausesSwapped(r) ==
    CASE r.kind = "status" -> Return(<<>>, <<"API error: ", r.status>>)
      [] r.kind \in {"timeout", "connect"} -> Return(<<>>, <<"Invalid API response format">>)
      [] r.kind = "notjson" -> Return(<<>>, <<"API request failed">>)

\* the three except clauses around both completion calls
ExceptClauses(r) ==
    CASE r.kind = "status" -> Return(<<>>, <<"API error: ", r.status>>)
      [] r.kind \in {"timeout", "connect"} -> Return(<<>>, <<"API request failed">>)
      [] r.kind = "notjson" -> Return(<<>>, <<"Invalid API response format">>)

\* from the first response to its content: returns, raises, or goes on with
\* the content (in the sql field)
FirstCompletion(r) ==
    CASE r.kind \in {"status", "timeout", "connect", "notjson"} -> ExceptClauses(r)
      [] r.kind = "notobject" -> Raise(<<"'list' object has no attribute 'get'">>)
      [] r.kind \in {"nochoices", "emptychoices", "choicesnotlist"} ->
            Return(<<>>, <<"Invalid API response structure">>)
      [] r.kind = "choicenotobject" -> Raise(<<"'str' object has no attribute 'get'">>)
      [] r.kind = "nomessage" -> Return(<<>>, <<"Invalid API response structure">>)
      [] r.kind = "messagenotobject" -> Raise(<<"'str' object has no attribute 'get'">>)
      [] r.kind = "nocontent" -> Continue(<<>>)
      [] r.kind = "nullcontent" -> Raise(<<"'NoneType' object has no attribute 'strip'">>)
      [] r.kind = "content" -> Continue(r.content)

\* variant: sql_query is not reset before the return
FollowUpOutcomeNoReset(sql_query, follow_up_text) ==
    LET error_reason == Strip(follow_up_text) IN
    IF error_reason = <<>>
    THEN Return(sql_query, <<"Failed to determine error reason">>)
    ELSE Return(sql_query, error_reason)

\* variant: the explanation is not trimmed
FollowUpOutcomeNoTrim(sql_query, follow_up_text) ==
    IF follow_up_text = <<>>
    THEN Return(<<>>, <<"Failed to determine error reason">>)
    ELSE Return(<<>>, follow_up_text)

\* the outcome once the explanation has been read: the reason is the trimmed
\* explanation or the default, and sql_query is reset
FollowUpOutcome(sql_query, follow_up_text) ==
    LET error_reason == Strip(follow_up_text) IN
    IF error_reason = <<>>
    THEN Return(<<>>, <<"Failed to determine error reason">>)
    ELSE Return(<<>>, error_reason)

\* variant: a malformed follow-up gets the reason of a malformed first response
FollowUpCompletionSameReason(sql_query, r) ==
    CASE r.kind \in {"status", "timeout", "connect", "notjson"} -> ExceptClauses(r)
      [] r.kind = "notobject" -> Raise(<<"'list' object has no attribute 'get'">>)
      [] r.kind \in {"nochoices", "emptychoices"} ->
            Return(<<>>, <<"Invalid API response structure">>)
      [] r.kind = "choicesnotlist" -> Raise(<<"0">>)
      [] r.kind = "choicenotobject" -> Raise(<<"'str' object has no attribute 'get'">>)
      [] r.kind = "nomessage" -> Return(<<>>, <<"Invalid API response structure">>)
      [] r.kind = "messagenotobject" -> Raise(<<"'str' object has no attribute 'get'">>)
      [] r.kind = "nocontent" -> FollowUpOutcome(sql_query, <<>>)
      [] r.kind = "nullcontent" -> Raise(<<"'NoneType' object has no attribute 'strip'">>)
      [] r.kind = "content" -> FollowUpOutcome(sql_query, r.content)

\* from the follow-up response to the outcome
FollowUpCompletion(sql_query, r) ==
    CASE r.kind \in {"status", "timeout", "connect", "notjson"} -> ExceptClauses(r)
      [] r.kind = "notobject" -> Raise(<<"'list' object has no attribute 'get'">>)
      [] r.kind \in {"nochoices", "emptychoices"} ->
            Return(<<>>, <<"Failed to determine error reason">>)
      [] r.kind = "choicesnotlist" -> Raise(<<"0">>)
      [] r.kind = "choicenotobject" -> Raise(<<"'str' object has no attribute 'get'">>)
      [] r.kind = "nomessage" -> Return(<<>>, <<"Failed to determine error reason">>)
      [] r.kind = "messagenotobject" -> Raise(<<"'str' object has no attribute 'get'">>)
      [] r.kind = "nocontent" -> FollowUpOutcome(sql_query, <<>>)
      [] r.kind = "nullcontent" -> Raise(<<"'NoneType' object has no attribute 'strip'">>)
      [] r.kind = "content" -> FollowUpOutcome(sql_query, r.content)

\* variant: a text that does not end like a statement is rejected
DirectOutcomeValidated(sql_query) ==
    IF sql_query # <<>> /\ sql_query[Len(sql_query)] = "S"
    THEN Return(sql_query, <<>>)
    ELSE Return(<<>>, <<"Invalid SQL">>)

\* the outcome returned when the first completion is not the sentinel
DirectOutcome(sql_query) == Return(sql_query, <<>>)

(* ------------------------------ _handle ------------------------------- *)

NoResponse ==
    [statusCode |-> 0, headers |-> "", kind |-> "none",
     sql_query |-> <<>>, error_reason |-> <<>>, error |-> <<>>]

ErrorResponse(code, message) ==
    [statusCode |-> code, headers |-> "Access-Control-Allow-Origin: *", kind |-> "error",
     sql_query |-> <<>>, error_reason |-> <<>>, error |-> message]

\* the status-200 response built from generate_sql's return value
ResultResponse(sql, reason) ==
    IF sql = <<>>
    THEN [statusCode |-> 200, headers |-> "Access-Control-Allow-Origin: *", kind |-> "result",
          sql_query |-> <<>>, error_reason |-> reason, error |-> <<>>]
    ELSE [statusCode |-> 200, headers |-> "Access-Control-Allow-Origin: *", kind |-> "result",
          sql_query |-> sql, error_reason |-> <<>>, error |-> <<>>]

\* int(data.get("port", DEFAULT_DB_PORT))
PortOf(p) == IF p.kind = "absent" THEN DEFAULT_DB_PORT ELSE p.value

\* variant: the blank test without strip()
ValidQueryNoStrip(q) == q.kind = "string" /\ q.text # <<>>

\* isinstance(nl, str) and nl.strip()
ValidQuery(q) == q.kind = "string" /\ Strip(q.text) # <<>>

\* an exception that leaves _handle: the invocation ends without a response
Unhandled(message) ==
    [statusCode |-> 0, headers |-> "", kind |-> "exception",
     sql_query |-> <<>>, error_reason |-> <<>>, error |-> message]

(* ------------------------------- state -------------------------------- *)

VARIABLES
    event,              \* the event given to lambda_handler
    api_key,            \* whether XAI_API_KEY is set
    pc,                 \* where the invocation stands
    calls,              \* the network requests issued so far, in order
    resps,              \* the kind and status of the answers received so far
    table_structure,    \* generate_sql's table_structure
    content,            \* generate_sql's content (first completion, raw)
    follow_up_content,  \* generate_sql's follow_up_content
    outcome,            \* what generate_sql returned or raised
    response,           \* what _handle returned
    schema_error,       \* str(e) of the exception generate_sql caught from get_valid_tables
    exec_event,         \* the event given to the execution endpoint's lambda_handler
    exec_env,           \* whether DB_USER and DB_PASSWORD are set in the environment
    exec_database,      \* the number of committed rows of the table the statement is about
    exec_conn,          \* the handler's database connection: none, open or closed
    exec_pc,            \* where the execution endpoint's invocation stands
    exec_response,      \* what the execution endpoint's lambda_handler returned
    reqs,               \* the generate_sql coroutines in flight: the locals of each
    cli_pc,             \* where SQLQueryCLI.run stands
    cli_query,          \* run's query
    cli_nl2sql_result,  \* run's nl2sql_result
    cli_sql_query,      \* run's sql_query
    cli_answer,         \* the line read at the confirmation prompt
    cli_confirmation,   \* run's confirmation
    cli_calls,          \* the requests posted since the instruction was read
    cli_response,       \* what the request gave, until with_loading_animation hands it on
    loading,            \* self.loading
    main_pc,            \* where with_loading_animation stands
    anim_pc,            \* where the animation thread stands
    anim_i,             \* animate_loading's i
    operation           \* how the wrapped operation ends

\* the state of the generation endpoint
nl_vars == <<event, api_key, pc, calls, resps, table_structure, content,
             follow_up_content, outcome, response, schema_error>>

\* the state of the execution endpoint
exec_vars == <<exec_event, exec_env, exec_database, exec_conn, exec_pc, exec_response>>

\* the concurrent generate_sql coroutines
many_vars == <<reqs>>

\* the state of the command-line loop
cli_vars == <<cli_pc, cli_query, cli_nl2sql_result, cli_sql_query, cli_answer,
              cli_confirmation, cli_calls, cli_response>>

\* the state of with_loading_animation and of its thread
anim_vars == <<loading, main_pc, anim_pc, anim_i, operation>>

vars == <<nl_vars, exec_vars, many_vars, cli_vars, anim_vars>>

NoOutcome == [step |-> "none", sql |-> <<>>, reason |-> <<>>, error |-> <<>>]

\* nl.strip(), the instruction given to generate_sql
NlInstruction == Strip(event.query.text)

SchemaCall == [url |-> "SCHEMA_API_URL", payload |-> SchemaPayload(PortOf(event.port))]
CompletionCall(payload) == [url |-> "XAI_API_URL", payload |-> payload]

Received(r) == [kind |-> r.kind, status |-> r.status]

(* ------------------ execution endpoint: inputs ------------------------ *)

\* the "query" field of the execution request: absent, the empty string, a
\* value that is not a string, a SELECT, an INSERT of one row, a DELETE of
\* every row, an INSERT ... RETURNING, or a statement the database rejects
ExecQueries ==
    {"missing", "empty", "nonstring", "select", "insert", "delete", "returning", "invalid"}

\* the events of the execution endpoint; db_user and db_password tell whether
\* the field is given
ExecEvents ==
    {[body |-> b, query |-> "missing", port |-> [kind |-> "absent", value |-> 0],
      db_user |-> FALSE, db_password |-> FALSE] : b \in {"none", "badjson", "notobject"}}
    \cup {[body |-> "object", query |-> q, port |-> p, db_user |-> u, db_password |-> w] :
            q \in ExecQueries, p \in Ports, u \in BOOLEAN, w \in BOOLEAN}

ExecNoResponse == [statusCode |-> 0, shape |-> "none", n |-> 0, error |-> <<>>]

\* no invocation of the execution endpoint
ExecIdle ==
    /\ exec_event = [body |-> "none", query |-> "missing",
                     port |-> [kind |-> "absent", value |-> 0],
                     db_user |-> FALSE, db_password |-> FALSE]
    /\ exec_env = FALSE
    /\ exec_database = 0
    /\ exec_conn = "none"
    /\ exec_pc = "idle"
    /\ exec_response = ExecNoResponse

\* no invocation of the generation endpoint
NlIdle ==
    /\ event = [body |-> "none", query |-> [kind |-> "missing", text |-> <<>>],
                port |-> [kind |-> "absent", value |-> 0]]
    /\ api_key = FALSE
    /\ pc = "idle"
    /\ calls = <<>>
    /\ resps = <<>>
    /\ table_structure = ""
    /\ content = <<>>
    /\ follow_up_content = <<>>
    /\ outcome = NoOutcome
    /\ response = NoResponse
    /\ schema_error = <<>>

\* no generate_sql coroutine
ManyIdle == reqs = <<>>

\* the command-line loop is not running
CliIdle ==
    /\ cli_pc = "idle"
    /\ cli_query = <<>>
    /\ cli_nl2sql_result = [kind |-> "none", sql_query |-> <<>>]
    /\ cli_sql_query = <<>>
    /\ cli_answer = <<>>
    /\ cli_confirmation = <<>>
    /\ cli_calls = <<>>
    /\ cli_response = [kind |-> "none", sql_query |-> <<>>]

\* no with_loading_animation in progress: the state __init__ leaves
AnimIdle ==
    /\ loading = FALSE
    /\ main_pc = "idle"
    /\ anim_pc = "none"
    /\ anim_i = 0
    /\ operation = "none"

(* ----------------------- generation endpoint -------------------------- *)

Init ==
    /\ ExecIdle
    /\ ManyIdle
    /\ CliIdle
    /\ AnimIdle
    /\ schema_error = <<>>
    /\ event \in Events
    /\ api_key \in BOOLEAN
    /\ pc = "start"
    /\ calls = <<>>
    /\ resps = <<>>
    /\ table_structure = ""
    /\ content = <<>>
    /\ follow_up_content = <<>>
    /\ outcome = NoOutcome
    /\ response = NoResponse

\* the end of _handle once generate_sql has returned or raised
Finish(o) ==
    /\ outcome' = o
    /\ pc' = "done"
    /\ response' = IF o.step = "raise"
                   THEN ErrorResponse(502, o.error)
                   ELSE ResultResponse(o.sql, o.reason)

\* _handle up to the first await: parse and validate the event, build the
\* client, enter generate_sql and post the schema request
Handle ==
    /\ pc = "start"
    /\ UNCHANGED <<event, api_key, resps, table_structure, content, follow_up_content,
                   schema_error>>
    /\ UNCHANGED <<exec_vars, many_vars, cli_vars, anim_vars>>
    /\ IF event.body = "badjson"
       THEN /\ response' = ErrorResponse(400, <<"Invalid JSON in request body">>)
            /\ pc' = "done"
            /\ UNCHANGED <<calls, outcome>>
       ELSE IF event.body = "notobject"
       THEN /\ response' = Unhandled(<<"'list' object has no attribute 'get'">>)
            /\ pc' = "raised"
            /\ UNCHANGED <<calls, outcome>>
       ELSE IF ~ValidQuery(event.query)
       THEN /\ response' = ErrorResponse(400, <<"Missing or invalid 'query' field">>)
            /\ pc' = "done"
            /\ UNCHANGED <<calls, outcome>>
       ELSE IF event.port.kind = "bad"
       THEN /\ response' = Unhandled(<<"invalid literal for int() with base 10">>)
            /\ pc' = "raised"
            /\ UNCHANGED <<calls, outcome>>
       ELSE IF ~api_key
       THEN /\ response' = ErrorResponse(502, <<"XAI_API_KEY is missing">>)
            /\ pc' = "done"
            /\ UNCHANGED <<calls, outcome>>
       ELSE /\ calls' = Append(calls, SchemaCall)
            /\ pc' = "schema_wait"
            /\ UNCHANGED <<outcome, response>>

\* generate_sql from the schema answer to the first completion request
SchemaAnswered(r) ==
    /\ pc = "schema_wait"
    /\ resps' = Append(resps, Received(r))
    /\ UNCHANGED <<event, api_key, content, follow_up_content>>
    /\ UNCHANGED <<exec_vars, many_vars, cli_vars, anim_vars>>
    /\ LET t == get_valid_tables(r) IN
       IF t.raised
       THEN /\ schema_error' = t.error
            /\ Finish(Return(<<>>, SchemaFailureReason(t.error)))
            /\ UNCHANGED <<calls, table_structure>>
       ELSE /\ table_structure' = r.rows
            /\ UNCHANGED schema_error
            /\ calls' = Append(calls,
                   CompletionCall(FirstPayload(SystemPrompt(r.rows), NlInstruction)))
            /\ pc' = "first_wait"
            /\ UNCHANGED <<outcome, response>>

\* variant: a first completion that fails at transport level is posted once more
FirstAnsweredRetry(r) ==
    /\ pc = "first_wait"
    /\ resps' = Append(resps, Received(r))
    /\ UNCHANGED <<event, api_key, table_structure, follow_up_content, schema_error>>
    /\ UNCHANGED <<exec_vars, many_vars, cli_vars, anim_vars>>
    /\ IF r.kind \in {"timeout", "connect"} /\ Len(calls) < 3
       THEN /\ calls' = Append(calls, calls[Len(calls)])
            /\ UNCHANGED <<pc, content, outcome, response>>
       ELSE LET f == FirstCompletion(r) IN
            IF f.step # "continue"
            THEN /\ Finish(f)
                 /\ UNCHANGED <<calls, content>>
            ELSE /\ content' = f.sql
                 /\ IF IsSentinel(Sanitize(f.sql))
                    THEN /\ calls' = Append(calls,
                                CompletionCall(FollowUpPayload(SystemPrompt(table_structure),
                                                               NlInstruction, f.sql)))
                         /\ pc' = "followup_wait"
                         /\ UNCHANGED <<outcome, response>>
                    ELSE /\ Finish(DirectOutcome(Sanitize(f.sql)))
                         /\ UNCHANGED calls

\* generate_sql from the first completion to its return or to the follow-up
\* request
FirstAnswered(r) ==
    /\ pc = "first_wait"
    /\ resps' = Append(resps, Received(r))
    /\ UNCHANGED <<event, api_key, table_structure, follow_up_content, schema_error>>
    /\ UNCHANGED <<exec_vars, many_vars, cli_vars, anim_vars>>
    /\ LET f == FirstCompletion(r) IN
       IF f.step # "continue"
       THEN /\ Finish(f)
            /\ UNCHANGED <<calls, content>>
       ELSE /\ content' = f.sql
            /\ IF IsSentinel(Sanitize(f.sql))
               THEN /\ calls' = Append(calls,
                           CompletionCall(FollowUpPayload(SystemPrompt(table_structure),
                                                          NlInstruction, f.sql)))
                    /\ pc' = "followup_wait"
                    /\ UNCHANGED <<outcome, response>>
               ELSE /\ Finish(DirectOutcome(Sanitize(f.sql)))
                    /\ UNCHANGED calls

\* generate_sql from the follow-up completion to its return
FollowUpAnswered(r) ==
    /\ pc = "followup_wait"
    /\ resps' = Append(resps, Received(r))
    /\ follow_up_content' = r.content
    /\ Finish(FollowUpCompletion(Sanitize(content), r))
    /\ UNCHANGED <<event, api_key, calls, table_structure, content, schema_error>>
    /\ UNCHANGED <<exec_vars, many_vars, cli_vars, anim_vars>>

Next ==
    \/ Handle
    \/ \E r \in SchemaResponses : SchemaAnswered(r)
    \/ \E r \in CompletionResponses(Chars, MaxContentLen) : FirstAnswered(r)
    \/ \E r \in CompletionResponses(FollowChars, MaxFollowLen) : FollowUpAnswered(r)

Spec == Init /\ [][Next]_vars

(* ------------------------ execution endpoint -------------------------- *)

ExecError(code, message) == [statusCode |-> code, shape |-> "error", n |-> 0, error |-> message]

\* status 200 with json.dumps(result): an array of n row mappings
ExecRows(n) == [statusCode |-> 200, shape |-> "rows", n |-> n, error |-> <<>>]

\* status 200 with json.dumps([{"rowcount": n}]): an array holding one mapping
ExecRowcount(n) == [statusCode |-> 200, shape |-> "rowcount_array", n |-> n, error |-> <<>>]

\* sql.lstrip().lower().startswith("select")
StartsWithSelect(q) == q = "select"

\* cur.description is set: the statement returns rows
HasDescription(q) == q \in {"select", "returning"}

\* the rows of the table once the statement has run
RowsAfter(q, rows) ==
    CASE q \in {"insert", "returning"} -> rows + 1
      [] q = "delete" -> 0
      [] OTHER -> rows

\* cur.rowcount
RowCount(q, rows) ==
    CASE q \in {"insert", "returning"} -> 1
      [] OTHER -> rows

\* len(cur.fetchall())
FetchAll(q, rows) == IF q = "returning" THEN 1 ELSE rows

\* user and password after the overrides: the field of the body or the
\* environment variable
HasCredentials == (exec_event.db_user \/ exec_env) /\ (exec_event.db_password \/ exec_env)

ExecInit ==
    /\ NlIdle
    /\ ManyIdle
    /\ CliIdle
    /\ AnimIdle
    /\ exec_event \in ExecEvents
    /\ exec_env \in BOOLEAN
    /\ exec_database \in 0..MaxRows
    /\ exec_conn = "none"
    /\ exec_pc = "start"
    /\ exec_response = ExecNoResponse

\* lambda_handler of the execution endpoint, whole; connects says whether
\* psycopg.connect succeeds
ExecHandler(connects) ==
    /\ exec_pc = "start"
    /\ exec_pc' = "done"
    /\ UNCHANGED <<exec_event, exec_env>>
    /\ UNCHANGED <<nl_vars, many_vars, cli_vars, anim_vars>>
    /\ LET q == exec_event.query IN
       IF exec_event.body = "badjson"
       THEN /\ exec_response' = ExecError(500, <<"Expecting property name enclosed in double quotes">>)
            /\ UNCHANGED <<exec_database, exec_conn>>
       ELSE IF exec_event.body = "notobject"
       THEN /\ exec_response' = ExecError(500, <<"'list' object has no attribute 'get'">>)
            /\ UNCHANGED <<exec_database, exec_conn>>
       ELSE IF q \in {"missing", "empty"}
       THEN /\ exec_response' = ExecError(400, <<"Missing \"query\" field">>)
            /\ UNCHANGED <<exec_database, exec_conn>>
       ELSE IF exec_event.port.kind = "bad"
       THEN /\ exec_response' = ExecError(500, <<"invalid literal for int() with base 10">>)
            /\ UNCHANGED <<exec_database, exec_conn>>
       ELSE IF ~HasCredentials
       THEN /\ exec_response' = ExecError(500, <<"Database credentials not provided">>)
            /\ UNCHANGED <<exec_database, exec_conn>>
       ELSE IF ~connects
       THEN /\ exec_response' = ExecError(500, <<"connection failed">>)
            /\ UNCHANGED <<exec_database, exec_conn>>
       ELSE IF q \in {"invalid", "nonstring"}
       THEN /\ exec_response' = ExecError(500, <<"execute failed">>)
            /\ exec_conn' = "open"
            /\ UNCHANGED exec_database
       ELSE /\ exec_database' = IF StartsWithSelect(q)
                                THEN exec_database
                                ELSE RowsAfter(q, exec_database)
            /\ exec_conn' = "closed"
            /\ exec_response' = IF HasDescription(q)
                                THEN ExecRows(FetchAll(q, exec_database))
                                ELSE ExecRowcount(RowCount(q, exec_database))

ExecNext == \E connects \in BOOLEAN : ExecHandler(connects)

SpecExec == ExecInit /\ [][ExecNext]_vars

(* ------------- concurrent generate_sql coroutines --------------------- *)

\* generate_sql coroutines in flight at once
NumRequests == 2

\* the instructions and ports the coroutines are called with
ManyArguments ==
    {[nl_instruction |-> <<"q">>, port |-> DEFAULT_DB_PORT],
     [nl_instruction |-> <<"Q">>, port |-> DEFAULT_DB_PORT + 1]}

\* schemas the execution endpoint can return to them
ManySchemas == {"banking", "retail"}

\* an answer to one network call of a coroutine
ManyResponse(kind, status, rows, text) ==
    [kind |-> kind, status |-> status, rows |-> rows, content |-> text]

\* answers to the schema query: a transport failure or the rows of a schema
ManySchemaResponses ==
    {ManyResponse("timeout", "", "", <<>>)}
    \cup {ManyResponse("rows", "200", s, <<>>) : s \in ManySchemas}

\* answers to the first completion: a transport failure, a statement or the
\* sentinel
ManyFirstResponses ==
    {ManyResponse("timeout", "", "", <<>>)}
    \cup {ManyResponse("content", "200", "", t) : t \in {<<"S">>, <<"X">>}}

\* answers to the follow-up: an explanation or a body without choices
ManyFollowUpResponses ==
    {ManyResponse("nochoices", "200", "", <<>>),
     ManyResponse("content", "200", "", <<"e">>)}

\* the locals of a coroutine that has not run yet
NewRequest(nl_instruction, port) ==
    [nl_instruction |-> nl_instruction, port |-> port, pc |-> "start",
     calls |-> <<>>, resps |-> <<>>, table_structure |-> "",
     content |-> <<>>, returning |-> NoOutcome, outcome |-> NoOutcome]

\* the schema request of a coroutine
SchemaCallFor(port) == [url |-> "SCHEMA_API_URL", payload |-> SchemaPayload(port)]

\* variant: the schema is an attribute of one client shared by the coroutines,
\* read where the follow-up is built
system_prompt_shared(rq, i) == SystemPrompt(rq[1].table_structure)

\* system_prompt, a local of the coroutine, read where the follow-up is built
system_prompt_of(rq, i) == SystemPrompt(rq[i].table_structure)

ManyInit ==
    /\ NlIdle
    /\ ExecIdle
    /\ CliIdle
    /\ AnimIdle
    /\ reqs \in [1..NumRequests ->
                    {NewRequest(a.nl_instruction, a.port) : a \in ManyArguments}]

\* variant: a schema some coroutine has fetched is reused instead of fetched
ManyBeginCached(i) ==
    /\ reqs[i].pc = "start"
    /\ UNCHANGED <<nl_vars, exec_vars, cli_vars, anim_vars>>
    /\ IF \E j \in DOMAIN reqs : reqs[j].table_structure # ""
       THEN LET j == CHOOSE k \in DOMAIN reqs : reqs[k].table_structure # ""
                cached == reqs[j].table_structure
            IN reqs' = [reqs EXCEPT
                   ![i].table_structure = cached,
                   ![i].calls = <<CompletionCall(FirstPayload(SystemPrompt(cached),
                                                              reqs[i].nl_instruction))>>,
                   ![i].pc = "first_wait"]
       ELSE reqs' = [reqs EXCEPT ![i].calls = <<SchemaCallFor(reqs[i].port)>>,
                                 ![i].pc = "schema_wait"]

\* coroutine i up to its first await: the schema request is posted
ManyBegin(i) ==
    /\ reqs[i].pc = "start"
    /\ reqs' = [reqs EXCEPT ![i].calls = <<SchemaCallFor(reqs[i].port)>>,
                            ![i].pc = "schema_wait"]
    /\ UNCHANGED <<nl_vars, exec_vars, cli_vars, anim_vars>>

\* coroutine i resumes in fetch_table_structure with the answer to the
\* schema request: the status is tested and the body parsed, and the
\* coroutine suspends again where the block of the schema client is left
ManySchemaAnswered(i, r) ==
    /\ reqs[i].pc = "schema_wait"
    /\ reqs' = [reqs EXCEPT ![i].resps = Append(@, r),
                            ![i].pc = "schema_closing"]
    /\ UNCHANGED <<nl_vars, exec_vars, cli_vars, anim_vars>>

\* coroutine i resumes once the schema client is closed: a failure ends
\* generate_sql, rows become table_structure and the first completion
\* request is posted
ManySchemaClosed(i) ==
    /\ reqs[i].pc = "schema_closing"
    /\ UNCHANGED <<nl_vars, exec_vars, cli_vars, anim_vars>>
    /\ LET r == reqs[i].resps[1]
           t == get_valid_tables(r)
       IN IF t.raised
          THEN reqs' = [reqs EXCEPT
                   ![i].outcome = Return(<<>>, SchemaFailureReason(t.error)),
                   ![i].pc = "done"]
          ELSE reqs' = [reqs EXCEPT
                   ![i].table_structure = r.rows,
                   ![i].calls = Append(@, CompletionCall(
                       FirstPayload(SystemPrompt(r.rows), reqs[i].nl_instruction))),
                   ![i].pc = "first_wait"]

\* coroutine i resumes with the first completion: it posts the follow-up
\* request, or has a value to return (or an exception in flight) and
\* suspends where the block of the completion client is left
ManyFirstAnswered(i, r) ==
    /\ reqs[i].pc = "first_wait"
    /\ UNCHANGED <<nl_vars, exec_vars, cli_vars, anim_vars>>
    /\ LET f == FirstCompletion(r) IN
       IF f.step # "continue"
       THEN reqs' = [reqs EXCEPT ![i].resps = Append(@, r),
                                 ![i].returning = f,
                                 ![i].pc = "client_closing"]
       ELSE IF IsSentinel(Sanitize(f.sql))
       THEN reqs' = [reqs EXCEPT
                ![i].resps = Append(@, r),
                ![i].content = f.sql,
                ![i].calls = Append(@, CompletionCall(
                    FollowUpPayload(system_prompt_of(reqs, i),
                                    reqs[i].nl_instruction, f.sql))),
                ![i].pc = "followup_wait"]
       ELSE reqs' = [reqs EXCEPT ![i].resps = Append(@, r),
                                 ![i].content = f.sql,
                                 ![i].returning = DirectOutcome(Sanitize(f.sql)),
                                 ![i].pc = "client_closing"]

\* coroutine i resumes with the follow-up completion: it has a value to
\* return (or an exception in flight) and suspends where the block of the
\* completion client is left
ManyFollowUpAnswered(i, r) ==
    /\ reqs[i].pc = "followup_wait"
    /\ reqs' = [reqs EXCEPT
           ![i].resps = Append(@, r),
           ![i].returning = FollowUpCompletion(Sanitize(reqs[i].content), r),
           ![i].pc = "client_closing"]
    /\ UNCHANGED <<nl_vars, exec_vars, cli_vars, anim_vars>>

\* coroutine i resumes once the completion client is closed: generate_sql
\* returns the value, or the exception goes on
ManyClientClosed(i) ==
    /\ reqs[i].pc = "client_closing"
    /\ reqs' = [reqs EXCEPT ![i].outcome = reqs[i].returning,
                            ![i].pc = "done"]
    /\ UNCHANGED <<nl_vars, exec_vars, cli_vars, anim_vars>>

ManyNext ==
    \E i \in 1..NumRequests :
        \/ ManyBegin(i)
        \/ \E r \in ManySchemaResponses : ManySchemaAnswered(i, r)
        \/ ManySchemaClosed(i)
        \/ \E r \in ManyFirstResponses : ManyFirstAnswered(i, r)
        \/ \E r \in ManyFollowUpResponses : ManyFollowUpAnswered(i, r)
        \/ ManyClientClosed(i)

SpecMany == ManyInit /\ [][ManyNext]_vars

(* ---------------------- with_loading_animation ------------------------- *)

\* how the wrapped operation can end
Endings == {"returns", "raises"}

AnimInit ==
    /\ NlIdle
    /\ ExecIdle
    /\ ManyIdle
    /\ CliIdle
    /\ loading = FALSE
    /\ main_pc = "start"
    /\ anim_pc = "none"
    /\ anim_i = 0
    /\ operation = "none"

\* with_loading_animation up to the call of the operation: the flag is set
\* and the thread created and started; a later call starts a new thread
StartAnimation ==
    /\ main_pc \in {"start", "returned"}
    /\ loading' = TRUE
    /\ anim_pc' = "while"
    /\ anim_i' = 0
    /\ operation' = "none"
    /\ main_pc' = "operation"
    /\ UNCHANGED <<nl_vars, exec_vars, many_vars, cli_vars>>

\* the operation ends: it returns its result or raises
OperationEnds(how) ==
    /\ main_pc = "operation"
    /\ operation' = how
    /\ main_pc' = "finally"
    /\ UNCHANGED <<loading, anim_pc, anim_i>>
    /\ UNCHANGED <<nl_vars, exec_vars, many_vars, cli_vars>>

\* the finally block clears the flag
ClearLoading ==
    /\ main_pc = "finally"
    /\ loading' = FALSE
    /\ main_pc' = "join"
    /\ UNCHANGED <<anim_pc, anim_i, operation>>
    /\ UNCHANGED <<nl_vars, exec_vars, many_vars, cli_vars>>

\* variant: the thread is not joined
JoinNoWait ==
    /\ main_pc = "join"
    /\ main_pc' = IF operation = "returns" THEN "returned" ELSE "propagated"
    /\ UNCHANGED <<loading, anim_pc, anim_i, operation>>
    /\ UNCHANGED <<nl_vars, exec_vars, many_vars, cli_vars>>

\* animation_thread.join() returns once the thread has terminated; then the
\* result is returned or the exception goes on to the caller
Join ==
    /\ main_pc = "join"
    /\ anim_pc = "terminated"
    /\ main_pc' = IF operation = "returns" THEN "returned" ELSE "propagated"
    /\ UNCHANGED <<loading, anim_pc, anim_i, operation>>
    /\ UNCHANGED <<nl_vars, exec_vars, many_vars, cli_vars>>

\* animate_loading: the test of the while loop
WhileTest ==
    /\ anim_pc = "while"
    /\ anim_pc' = IF loading THEN "grow" ELSE "clear"
    /\ anim_i' = IF loading THEN 0 ELSE anim_i
    /\ UNCHANGED <<loading, main_pc, operation>>
    /\ UNCHANGED <<nl_vars, exec_vars, many_vars, cli_vars>>

\* one pass of the first for loop up to its sleep; anim_i is the value the
\* range gives next.  An exhausted range and a break both lead to the
\* second loop.
Grow ==
    /\ anim_pc = "grow"
    /\ IF anim_i = DOT_STEPS
       THEN /\ anim_i' = MOST_DOTS
            /\ anim_pc' = "shrink"
       ELSE IF ~loading
       THEN /\ anim_i' = MOST_DOTS
            /\ anim_pc' = "shrink"
       ELSE /\ anim_pc' = "grow_sleep"
            /\ UNCHANGED anim_i
    /\ UNCHANGED <<loading, main_pc, operation>>
    /\ UNCHANGED <<nl_vars, exec_vars, many_vars, cli_vars>>

\* time.sleep(0.12) ends
GrowSlept ==
    /\ anim_pc = "grow_sleep"
    /\ anim_i' = anim_i + 1
    /\ anim_pc' = "grow"
    /\ UNCHANGED <<loading, main_pc, operation>>
    /\ UNCHANGED <<nl_vars, exec_vars, many_vars, cli_vars>>

\* one pass of the second for loop up to its sleep; an exhausted range and
\* a break both lead back to the test of the while loop
Shrink ==
    /\ anim_pc = "shrink"
    /\ IF anim_i < 0
       THEN /\ anim_i' = 0
            /\ anim_pc' = "while"
       ELSE IF ~loading
       THEN /\ anim_pc' = "while"
            /\ UNCHANGED anim_i
       ELSE /\ anim_pc' = "shrink_sleep"
            /\ UNCHANGED anim_i
    /\ UNCHANGED <<loading, main_pc, operation>>
    /\ UNCHANGED <<nl_vars, exec_vars, many_vars, cli_vars>>

\* time.sleep(0.04) ends
ShrinkSlept ==
    /\ anim_pc = "shrink_sleep"
    /\ anim_i' = anim_i - 1
    /\ anim_pc' = "shrink"
    /\ UNCHANGED <<loading, main_pc, operation>>
    /\ UNCHANGED <<nl_vars, exec_vars, many_vars, cli_vars>>

\* the line is cleared and the thread ends
ClearLine ==
    /\ anim_pc = "clear"
    /\ anim_pc' = "terminated"
    /\ UNCHANGED <<loading, main_pc, anim_i, operation>>
    /\ UNCHANGED <<nl_vars, exec_vars, many_vars, cli_vars>>

\* the steps of the animation thread
AnimationThread ==
    \/ WhileTest
    \/ Grow
    \/ GrowSlept
    \/ Shrink
    \/ ShrinkSlept
    \/ ClearLine

AnimNext ==
    \/ StartAnimation
    \/ \E how \in Endings : OperationEnds(how)
    \/ ClearLoading
    \/ Join
    \/ AnimationThread

SpecAnim == AnimInit /\ [][AnimNext]_vars

\* the interpreter keeps scheduling a runnable thread: the animation thread
\* goes on while it has a step, and the caller's thread goes through its
\* finally block; nothing makes the operation end or the caller call again
SpecAnimFair ==
    /\ SpecAnim
    /\ WF_vars(AnimationThread)
    /\ WF_vars(ClearLoading)
    /\ WF_vars(Join)

(* ------------------------ command-line loop --------------------------- *)

\* lines typed at the instruction prompt: blank ones, instructions and quit
\* commands, with blanks around them and in upper case
InstructionLines ==
    {<<>>, <<" ">>, <<" ", "a">>, <<"a", "a">>, <<"q">>, <<" ", "Q">>, <<"\\", "q">>}

\* lines typed at the confirmation prompt; a word is kept whole
ConfirmationLines ==
    {<<>>, <<"yes">>, <<" ", "YES">>, <<"yes", " ">>, <<"no">>, <<" ", "no">>,
     <<"refine">>, <<"yes", "yes">>}

\* the sql_query of a generation result: empty, quotes only, a statement, a
\* statement inside quotes
GeneratedTexts == {<<>>, <<"\"", "\"">>, <<"S">>, <<"\"", "S", "\"">>}

\* str.lower() of one token
LowerChar(c) ==
    CASE c = "Q" -> "q"
      [] c = "YES" -> "yes"
      [] OTHER -> c

\* str.lower()
Lower(s) == [k \in DOMAIN s |-> LowerChar(s[k])]

\* quit_commands
quit_commands ==
    {<<"q", "u", "i", "t">>, <<"e", "x", "i", "t">>, <<"q">>, <<"\\", "q">>}

\* what get_sql_query's request gives: a RequestException (transport failure
\* or error status), a JSON object without "sql_query", or an object with it
GenerationResults ==
    {[kind |-> k, sql_query |-> <<>>] : k \in {"request_exception", "nokey"}}
    \cup {[kind |-> "result", sql_query |-> t] : t \in GeneratedTexts}

\* what execute_sql's request gives: a RequestException, an object with an
\* "error" key, or rows
ExecutionResults ==
    {[kind |-> k, sql_query |-> <<>>] : k \in {"request_exception", "error", "rows"}}

\* nothing in flight
NoCliResponse == [kind |-> "none", sql_query |-> <<>>]

\* the request get_sql_query posts
GenerationRequest(query) == [url |-> "nl2sql_url", query |-> query]

\* the request execute_sql posts
ExecutionRequest(sql_query) == [url |-> "exec_sql_url", query |-> sql_query]

\* variant: every answer but 'no' and 'refine' confirms
ConfirmedUnlessDeclined(confirmation) == confirmation \notin {<<"no">>, <<"refine">>}

\* the if/elif chain on confirmation falls through to execute_sql
Confirmed(confirmation) ==
    /\ confirmation # <<"no">>
    /\ confirmation # <<"refine">>
    /\ ~(confirmation # <<"yes">>)

CliInit ==
    /\ NlIdle
    /\ ExecIdle
    /\ ManyIdle
    /\ AnimIdle
    /\ cli_pc = "instruction_prompt"
    /\ cli_query = <<>>
    /\ cli_nl2sql_result = [kind |-> "none", sql_query |-> <<>>]
    /\ cli_sql_query = <<>>
    /\ cli_answer = <<>>
    /\ cli_confirmation = <<>>
    /\ cli_calls = <<>>
    /\ cli_response = NoCliResponse

\* run from the instruction prompt: the line is read and trimmed; a quit
\* command ends the loop, a blank line repeats the prompt, anything else
\* enters get_sql_query and with_loading_animation.  nl2sql_result,
\* sql_query and confirmation keep what the previous pass left in them.
ReadInstruction(line) ==
    /\ cli_pc = "instruction_prompt"
    /\ cli_query' = Strip(line)
    /\ cli_answer' = <<>>
    /\ cli_calls' = <<>>
    /\ UNCHANGED <<cli_nl2sql_result, cli_sql_query, cli_confirmation, cli_response>>
    /\ UNCHANGED <<nl_vars, exec_vars, many_vars, loading, anim_pc, anim_i, operation>>
    /\ IF Lower(Strip(line)) \in quit_commands
       THEN /\ cli_pc' = "exited"
            /\ UNCHANGED main_pc
       ELSE IF Strip(line) = <<>>
       THEN /\ cli_pc' = "instruction_prompt"
            /\ UNCHANGED main_pc
       ELSE /\ cli_pc' = "generation_call"
            /\ main_pc' = "start"

\* with_loading_animation, called by get_sql_query or execute_sql, sets the
\* flag and starts the thread
CliStartAnimation ==
    /\ cli_pc \in {"generation_call", "execution_call"}
    /\ StartAnimation

\* make_request of get_sql_query posts the instruction
PostGeneration ==
    /\ cli_pc = "generation_call"
    /\ main_pc = "operation"
    /\ cli_calls' = Append(cli_calls, GenerationRequest(cli_query))
    /\ cli_pc' = "generation_wait"
    /\ UNCHANGED <<cli_query, cli_nl2sql_result, cli_sql_query, cli_answer,
                   cli_confirmation, cli_response>>
    /\ UNCHANGED <<nl_vars, exec_vars, many_vars, anim_vars>>

\* the generation endpoint answers: make_request returns the JSON body or
\* raises, and with_loading_animation enters its finally block
GenerationAnswered(g) ==
    /\ cli_pc = "generation_wait"
    /\ cli_response' = g
    /\ cli_pc' = "generation_answered"
    /\ operation' = IF g.kind = "request_exception" THEN "raises" ELSE "returns"
    /\ main_pc' = "finally"
    /\ UNCHANGED <<cli_query, cli_nl2sql_result, cli_sql_query, cli_answer,
                   cli_confirmation, cli_calls>>
    /\ UNCHANGED <<nl_vars, exec_vars, many_vars, loading, anim_pc, anim_i>>

\* with_loading_animation has returned or let the exception go on: a
\* RequestException ends the program, otherwise run assigns nl2sql_result
\* and sql_query and goes to the confirmation prompt, or back to the
\* instruction prompt when the stripped statement is empty
GenerationReturned ==
    /\ cli_pc = "generation_answered"
    /\ main_pc \in {"returned", "propagated"}
    /\ cli_response' = NoCliResponse
    /\ UNCHANGED <<cli_query, cli_answer, cli_confirmation, cli_calls>>
    /\ UNCHANGED <<nl_vars, exec_vars, many_vars, anim_vars>>
    /\ IF main_pc = "propagated"
       THEN /\ cli_pc' = "sys_exit"
            /\ UNCHANGED <<cli_nl2sql_result, cli_sql_query>>
       ELSE IF cli_response.kind = "nokey"
       THEN /\ cli_pc' = "raised"
            /\ cli_nl2sql_result' = cli_response
            /\ UNCHANGED cli_sql_query
       ELSE /\ cli_nl2sql_result' = cli_response
            /\ cli_sql_query' = StripSet(cli_response.sql_query, {"\""})
            /\ cli_pc' = IF StripSet(cli_response.sql_query, {"\""}) = <<>>
                         THEN "instruction_prompt"
                         ELSE "confirmation_prompt"

\* run from the confirmation prompt: the answer is read, lower-cased and
\* trimmed; only 'yes' enters execute_sql and with_loading_animation
ReadConfirmation(line) ==
    /\ cli_pc = "confirmation_prompt"
    /\ cli_answer' = line
    /\ cli_confirmation' = Strip(Lower(line))
    /\ UNCHANGED <<cli_query, cli_nl2sql_result, cli_sql_query, cli_calls, cli_response>>
    /\ UNCHANGED <<nl_vars, exec_vars, many_vars, loading, anim_pc, anim_i, operation>>
    /\ IF Confirmed(Strip(Lower(line)))
       THEN /\ cli_pc' = "execution_call"
            /\ main_pc' = "start"
       ELSE /\ cli_pc' = "instruction_prompt"
            /\ UNCHANGED main_pc

\* make_request of execute_sql posts the statement
PostExecution ==
    /\ cli_pc = "execution_call"
    /\ main_pc = "operation"
    /\ cli_calls' = Append(cli_calls, ExecutionRequest(cli_sql_query))
    /\ cli_pc' = "execution_wait"
    /\ UNCHANGED <<cli_query, cli_nl2sql_result, cli_sql_query, cli_answer,
                   cli_confirmation, cli_response>>
    /\ UNCHANGED <<nl_vars, exec_vars, many_vars, anim_vars>>

\* the execution endpoint answers: make_request returns rows (none for a
\* body with "error") or raises, and with_loading_animation enters its
\* finally block
ExecutionAnswered(e) ==
    /\ cli_pc = "execution_wait"
    /\ cli_response' = e
    /\ cli_pc' = "execution_answered"
    /\ operation' = IF e.kind = "request_exception" THEN "raises" ELSE "returns"
    /\ main_pc' = "finally"
    /\ UNCHANGED <<cli_query, cli_nl2sql_result, cli_sql_query, cli_answer,
                   cli_confirmation, cli_calls>>
    /\ UNCHANGED <<nl_vars, exec_vars, many_vars, loading, anim_pc, anim_i>>

\* with_loading_animation has returned or let the exception go on: a
\* RequestException ends the program, otherwise the result is shown and the
\* loop is back at the instruction prompt
ExecutionReturned ==
    /\ cli_pc = "execution_answered"
    /\ main_pc \in {"returned", "propagated"}
    /\ cli_response' = NoCliResponse
    /\ cli_pc' = IF main_pc = "propagated" THEN "sys_exit" ELSE "instruction_prompt"
    /\ UNCHANGED <<cli_query, cli_nl2sql_result, cli_sql_query, cli_answer,
                   cli_confirmation, cli_calls>>
    /\ UNCHANGED <<nl_vars, exec_vars, many_vars, anim_vars>>

CliNext ==
    \/ \E line \in InstructionLines : ReadInstruction(line)
    \/ CliStartAnimation
    \/ PostGeneration
    \/ \E g \in GenerationResults : GenerationAnswered(g)
    \/ GenerationReturned
    \/ \E line \in ConfirmationLines : ReadConfirmation(line)
    \/ PostExecution
    \/ \E e \in ExecutionResults : ExecutionAnswered(e)
    \/ ExecutionReturned
    \/ ClearLoading
    \/ Join
    \/ AnimationThread

SpecCli == CliInit /\ [][CliNext]_vars

(* ------------------------------ claims -------------------------------- *)

\* which of the three requests a logged call is
CallKind(c) ==
    IF c.url = "SCHEMA_API_URL" THEN "schema"
    ELSE IF Len(c.payload.messages) = 2 THEN "first" ELSE "followup"

\* the answers that count as a failed call
Failed(a) == a.kind \in {"timeout", "connect", "status", "notjson"}

\* the first completion carried a text (possibly by default) that was sanitized
FirstContentRead == Len(resps) >= 2 /\ resps[2].kind \in {"content", "nocontent"}

\* the follow-up request has been issued
SentinelPath == Len(calls) = 3

\* t is s without its leading and trailing whitespace
IsTrimOf(t, s) ==
    /\ \E i \in 0..Len(s) : \E j \in i..Len(s) :
          /\ t = SubSeq(s, i + 1, j)
          /\ \A k \in 1..i : s[k] \in Whitespace
          /\ \A k \in (j + 1)..Len(s) : s[k] \in Whitespace
    /\ t # <<>> => (t[1] \notin Whitespace /\ t[Len(t)] \notin Whitespace)

\* C1: whenever generate_sql returns (sql, reason), exactly one of the two is
\* the empty string, and the same holds for sql_query / error_reason of every
\* status-200 response.
C1_ExactlyOneEmpty ==
    /\ outcome.step = "return" => ((outcome.sql = <<>>) # (outcome.reason = <<>>))
    /\ response.statusCode = 200 =>
          ((response.sql_query = <<>>) # (response.error_reason = <<>>))

\* C2: the follow-up request is issued if and only if the sanitized first
\* completion begins with upper-case X; X, "X S" and the quoted "X" take the
\* sentinel path, a text beginning with S or with lower-case x does not.
C2_SentinelIffPrefixX ==
    (pc \in {"followup_wait", "done"} /\ FirstContentRead) =>
        /\ SentinelPath <=> (Sanitize(content) # <<>> /\ Sanitize(content)[1] = "X")
        /\ content \in {<<"X">>, <<"X", " ", "S">>, <<"\"", "X", "\"">>} => SentinelPath
        /\ (content # <<>> /\ content[1] \in {"S", "x"}) => ~SentinelPath

C2_Witness ==
    /\ pc = "followup_wait"
    /\ content = <<"\"", "X", "\"">>
    /\ SentinelPath

\* C3: on the sentinel path every returned outcome has the empty string as sql,
\* whatever followed the X and however the follow-up call ended.
C3_SentinelNeverSql ==
    (SentinelPath /\ outcome.step = "return") =>
        (outcome.sql = <<>> /\ response.sql_query = <<>>)

C3_Witness ==
    /\ SentinelPath
    /\ content = <<"X", " ", "S">>
    /\ outcome.step = "return"
    /\ resps[3].kind = "content"
    /\ follow_up_content # <<>>

\* C4: on the sentinel path an explanation that is empty after trimming gives
\* the reason 'Failed to determine error reason', and any other explanation
\* gives exactly the trimmed explanation.
C4_FollowUpReason ==
    (Len(resps) = 3 /\ resps[3].kind = "content") =>
        /\ outcome.step = "return"
        /\ IF \A k \in 1..Len(follow_up_content) : follow_up_content[k] \in Whitespace
           THEN outcome.reason = <<"Failed to determine error reason">>
           ELSE outcome.reason # <<>> /\ IsTrimOf(outcome.reason, follow_up_content)

C4_Witness ==
    /\ Len(resps) = 3
    /\ resps[3].kind = "content"
    /\ follow_up_content = <<" ", "e">>
    /\ outcome.reason = <<"e">>

\* C5: when the schema fetch fails in any way, no completion request is issued
\* and generate_sql returns ('', 'Failed to fetch table structure'), without
\* the text of the underlying error.
C5_SchemaFailureShortCircuits ==
    (Len(resps) >= 1 /\ resps[1].kind # "rows") =>
        /\ Len(calls) = 1
        /\ pc = "done"
        /\ outcome = Return(<<>>, <<"Failed to fetch table structure">>)
        /\ response.statusCode = 200
        /\ response.error_reason = <<"Failed to fetch table structure">>

C5_Witness ==
    /\ Len(resps) = 1
    /\ resps[1].kind = "notjson"
    /\ pc = "done"

\* C6: when the first completion call times out or fails at connection level,
\* generate_sql returns ('', 'API request failed') and issues no follow-up.
C6_FirstTransportFailure ==
    (Len(resps) >= 2 /\ resps[2].kind \in {"timeout", "connect"}) =>
        /\ outcome = Return(<<>>, <<"API request failed">>)
        /\ Len(calls) = 2
        /\ pc = "done"

C6_Witness ==
    /\ Len(resps) = 2
    /\ resps[2].kind = "timeout"
    /\ outcome.step = "return"

\* C7: at most three requests are issued, in the order schema, first
\* completion, follow-up; a request is issued only when every earlier one has
\* been answered, the first completion only after a successful schema fetch,
\* the follow-up only after the first completion was read and found to begin
\* with X.
C7_ThreeCallsInOrder ==
    /\ Len(calls) <= 3
    /\ \A i \in 1..Len(calls) : CallKind(calls[i]) = <<"schema", "first", "followup">>[i]
    /\ Len(resps) <= Len(calls)
    /\ Len(calls) <= Len(resps) + 1
    /\ Len(calls) >= 2 => (Len(resps) >= 1 /\ resps[1].kind = "rows")
    /\ Len(calls) = 3 =>
          /\ Len(resps) >= 2
          /\ resps[2].kind = "content"
          /\ Sanitize(content) # <<>>
          /\ Sanitize(content)[1] = "X"

C7_Witness ==
    /\ Len(calls) = 3
    /\ Len(resps) = 3
    /\ pc = "done"

\* C8: nothing is retried: each of the three requests is issued at most once,
\* and after a failed call no further request is issued.
C8_NoRetry ==
    /\ \A i \in 1..Len(calls) : \A j \in 1..Len(calls) :
          i # j => CallKind(calls[i]) # CallKind(calls[j])
    /\ \A i \in 1..Len(resps) : Failed(resps[i]) => (Len(calls) = i /\ pc = "done")

C8_Witness ==
    /\ Len(resps) = 2
    /\ resps[2].kind = "status"
    /\ Len(calls) = 2
    /\ pc = "done"

\* C9: a malformed first completion (choice list missing or empty, first choice
\* without message, message without content) ends generate_sql with
\* ('', 'Invalid API response structure') and no follow-up request.
C9_MalformedFirstResponse ==
    (Len(resps) >= 2
     /\ resps[2].kind \in {"nochoices", "emptychoices", "nomessage", "nocontent"}) =>
        /\ outcome = Return(<<>>, <<"Invalid API response structure">>)
        /\ Len(calls) = 2

\* C10: a query field that is missing, not a string or blank after trimming
\* gives status 400 and no network request at all.
C10_InvalidQueryRejected ==
    (/\ pc # "start"
     /\ event.body \in {"none", "object"}
     /\ \/ event.query.kind \in {"missing", "nonstring"}
        \/ \A k \in 1..Len(event.query.text) : event.query.text[k] \in Whitespace) =>
        /\ response.statusCode = 400
        /\ pc = "done"
        /\ calls = <<>>
        /\ resps = <<>>

C10_Witness ==
    /\ event.query.kind = "string"
    /\ event.query.text = <<" ">>
    /\ response.statusCode = 400
    /\ calls = <<>>

\* C11: for every event the handler returns a response with status 200, 400
\* or 502 carrying the permissive CORS header; no error leaves the handler.
C11_AlwaysResponds ==
    pc \in {"done", "raised"} =>
        /\ response.statusCode \in {200, 400, 502}
        /\ response.headers = "Access-Control-Allow-Origin: *"

\* C12: sanitizing is idempotent and leaves no quote at either end of the text.
C12_SanitizeIdempotent ==
    FirstContentRead =>
        LET t == Sanitize(content) IN
        /\ Sanitize(t) = t
        /\ t # <<>> => (t[1] # "\"" /\ t[Len(t)] # "\"")

\* C14: every execution of generate_sql that ends, ends with a returned
\* (sql, reason), never with an exception.
C14_AlwaysReturns ==
    /\ outcome.step # "raise"
    /\ (pc = "done" /\ calls # <<>>) => outcome.step = "return"

\* the contiguous parts of s
Infixes(s) == {SubSeq(s, i + 1, j) : i \in 0..Len(s), j \in 0..Len(s)}

\* t is s without its leading and trailing characters of the set
IsStripOf(t, s, set) ==
    /\ \E i \in 0..Len(s) : \E j \in i..Len(s) :
          /\ t = SubSeq(s, i + 1, j)
          /\ \A k \in 1..i : s[k] \in set
          /\ \A k \in (j + 1)..Len(s) : s[k] \in set
    /\ t # <<>> => (t[1] \notin set /\ t[Len(t)] \notin set)

\* s without every leading and trailing character of the set
Stripped(s, set) == CHOOSE t \in Infixes(s) : IsStripOf(t, s, set)

\* s without one quote at its head, if any, and one at its end, if any
OneLayerOff(s) ==
    LET a == IF s # <<>> /\ s[1] = "\"" THEN SubSeq(s, 2, Len(s)) ELSE s
    IN IF a # <<>> /\ a[Len(a)] = "\"" THEN SubSeq(a, 1, Len(a) - 1) ELSE a

\* the sanitized text is what the run shows of it: the returned sql off the
\* sentinel path, a text beginning with X on it
ShownSanitized(e) ==
    /\ SentinelPath <=> (e # <<>> /\ e[1] = "X")
    /\ (~SentinelPath /\ outcome.step = "return") => outcome.sql = e

\* C15 as stated: whitespace trimmed, exactly one layer of quotes removed,
\* every backslash-quote deleted.
C15_OneLayerRemoved ==
    (FirstContentRead /\ pc \in {"followup_wait", "done"}) =>
        ShownSanitized(RemoveEscapedQuotes(OneLayerOff(Stripped(content, Whitespace))))

\* C15 as amended: whitespace trimmed, then every leading and trailing quote
\* removed, whatever the number of layers, then every backslash-quote deleted.
C15_AllLayersRemoved ==
    (FirstContentRead /\ pc \in {"followup_wait", "done"}) =>
        ShownSanitized(RemoveEscapedQuotes(
            Stripped(Stripped(content, Whitespace), {"\""})))

C15_Witness ==
    /\ content = <<"\"", "\"", "S">>
    /\ pc = "done"
    /\ outcome.sql = <<"S">>

\* C16: when the sanitized first completion does not begin with X, no
\* follow-up is issued (one completion request in all) and the outcome is the
\* sanitized text, unchanged, with an empty reason.
C16_DirectOutcome ==
    (/\ FirstContentRead
     /\ pc = "done"
     /\ ~(Sanitize(content) # <<>> /\ Sanitize(content)[1] = "X")) =>
        /\ Len(calls) = 2
        /\ Cardinality({i \in 1..Len(calls) : calls[i].url = "XAI_API_URL"}) = 1
        /\ outcome = Return(Sanitize(content), <<>>)
        /\ response.statusCode = 200
        /\ response.sql_query = Sanitize(content)
        /\ response.error_reason = <<>>

C16_Witness ==
    /\ content = <<"\"", "S", "\"">>
    /\ Len(calls) = 2
    /\ pc = "done"
    /\ outcome.sql = <<"S">>
    /\ outcome.reason = <<>>

\* C17: the follow-up request carries, in order, the system prompt of the
\* first request, the instruction, an assistant turn with the raw first
\* content, and one new user turn asking for the explanation, with the same
\* max_tokens and temperature as the first request.
C17_FollowUpMessages ==
    Len(calls) = 3 =>
        LET first == calls[2].payload
            follow == calls[3].payload
        IN /\ Len(follow.messages) = 4
           /\ follow.messages[1] = first.messages[1]
           /\ follow.messages[1].role = "system"
           /\ follow.messages[2] = first.messages[2]
           /\ follow.messages[2] = [role |-> "user", content |-> Strip(event.query.text)]
           /\ follow.messages[3] = [role |-> "assistant", content |-> content]
           /\ follow.messages[4].role = "user"
           /\ follow.messages[4].content # follow.messages[2].content
           /\ follow.max_tokens = 512 /\ first.max_tokens = 512
           /\ follow.temperature = "0.2" /\ first.temperature = "0.2"

C17_Witness ==
    /\ Len(calls) = 3
    /\ content = <<"\"", "X", "\"">>
    /\ calls[3].payload.messages[3].content = <<"\"", "X", "\"">>

\* C18: a follow-up response without choices or whose first choice has no
\* message gives ('', 'Failed to determine error reason'), not the reason of a
\* malformed first response; a follow-up failing on status, transport or
\* parsing gets the reasons of the first call.
C18_FollowUpFailureReasons ==
    Len(resps) = 3 =>
        /\ resps[3].kind \in {"nochoices", "emptychoices", "nomessage"} =>
              /\ outcome = Return(<<>>, <<"Failed to determine error reason">>)
              /\ outcome.reason # <<"Invalid API response structure">>
        /\ resps[3].kind = "status" => outcome = Return(<<>>, <<"API error: ", resps[3].status>>)
        /\ resps[3].kind \in {"timeout", "connect"} =>
              outcome = Return(<<>>, <<"API request failed">>)
        /\ resps[3].kind = "notjson" => outcome = Return(<<>>, <<"Invalid API response format">>)

C18_Witness ==
    /\ Len(resps) = 3
    /\ resps[3].kind = "nomessage"
    /\ outcome.reason = <<"Failed to determine error reason">>

\* C19: a completion call answered with a non-2xx status ends generate_sql with
\* ('', 'API error: <status>'), one answered with a 2xx body that is not JSON
\* with ('', 'Invalid API response format'); no call follows either.
C19_StatusAndFormatErrors ==
    \A i \in 2..Len(resps) :
        /\ resps[i].kind = "status" =>
              /\ outcome = Return(<<>>, <<"API error: ", resps[i].status>>)
              /\ Len(calls) = i /\ pc = "done"
        /\ resps[i].kind = "notjson" =>
              /\ outcome = Return(<<>>, <<"Invalid API response format">>)
              /\ Len(calls) = i /\ pc = "done"

C19_Witness ==
    /\ Len(resps) = 3
    /\ resps[3].kind = "status"
    /\ outcome.reason = <<"API error: ", "429">>

\* C13: the execution endpoint answers 400 when the query is missing, 500 with
\* an error body on an internal error and 200 otherwise; with 200 the body is
\* an array of row mappings for a statement that returns rows and the object
\* {"rowcount": N} for a DML statement.
C13_ExecResponses ==
    exec_pc = "done" =>
        /\ exec_response.statusCode \in {200, 400, 500}
        /\ exec_event.body \in {"none", "object"} /\ exec_event.query \in {"missing", "empty"}
              => exec_response.statusCode = 400
        /\ exec_response.statusCode = 500 =>
              (exec_response.shape = "error" /\ exec_response.error # <<>>)
        /\ exec_response.statusCode = 200 =>
              IF exec_event.query \in {"select", "returning"}
              THEN exec_response.shape = "rows"
              ELSE exec_response.shape = "rowcount_object"

\* C20: fetch_table_structure turns every failure of the execution
\* collaborator (transport, non-2xx status, unparsable body) into the same
\* failure, with the message 'Failed to fetch table structure'.
C20_OneGenericSchemaFailure ==
    (Len(resps) >= 1 /\ resps[1].kind \in {"timeout", "connect", "status", "notjson"}) =>
        schema_error = <<"Failed to fetch table structure">>

\* the requests a coroutine issues, told from its own arguments and the
\* answers to its own calls
OwnCalls(q) ==
    LET sc == SchemaCallFor(q.port) IN
    IF q.pc = "start" THEN <<>>
    ELSE IF \/ Len(q.resps) = 0
            \/ q.pc = "schema_closing"
            \/ get_valid_tables(q.resps[1]).raised THEN <<sc>>
    ELSE LET sp == SystemPrompt(q.resps[1].rows)
             c1 == CompletionCall(FirstPayload(sp, q.nl_instruction))
         IN IF Len(q.resps) = 1 THEN <<sc, c1>>
            ELSE LET f == FirstCompletion(q.resps[2]) IN
                 IF f.step = "continue" /\ IsSentinel(Sanitize(f.sql))
                 THEN <<sc, c1, CompletionCall(FollowUpPayload(sp, q.nl_instruction, f.sql))>>
                 ELSE <<sc, c1>>

\* the outcome of a finished coroutine, told from the answers to its own calls
OwnOutcome(q) ==
    IF get_valid_tables(q.resps[1]).raised
    THEN Return(<<>>, <<"Failed to fetch table structure">>)
    ELSE LET f == FirstCompletion(q.resps[2]) IN
         IF f.step # "continue" THEN f
         ELSE IF IsSentinel(Sanitize(f.sql))
         THEN FollowUpCompletion(Sanitize(f.sql), q.resps[3])
         ELSE Return(Sanitize(f.sql), <<>>)

\* C21: with the network calls of several generate_sql coroutines interleaved
\* in any order, the requests a coroutine issues (the messages of its
\* follow-up among them) and its outcome are a function of its own
\* instruction, its own port and the answers to its own calls; two
\* coroutines with the same arguments and answers agree.
C21_RequestsIndependent ==
    /\ \A i \in DOMAIN reqs :
        /\ reqs[i].calls = OwnCalls(reqs[i])
        /\ reqs[i].pc = "done" => reqs[i].outcome = OwnOutcome(reqs[i])
    /\ \A i, j \in DOMAIN reqs :
        (/\ reqs[i].nl_instruction = reqs[j].nl_instruction
         /\ reqs[i].port = reqs[j].port
         /\ reqs[i].resps = reqs[j].resps
         /\ reqs[i].pc = reqs[j].pc)
        => (reqs[i].calls = reqs[j].calls /\ reqs[i].outcome = reqs[j].outcome)

\* two coroutines in flight together, with different instructions and
\* schemas: the second has fetched its schema while the first waits for its
\* explanation, and the first's follow-up carries the first's own schema
C21_Witness ==
    /\ reqs # <<>>
    /\ reqs[1].pc = "followup_wait"
    /\ reqs[2].pc = "first_wait"
    /\ reqs[1].table_structure = "banking"
    /\ reqs[2].table_structure = "retail"
    /\ reqs[1].nl_instruction # reqs[2].nl_instruction
    /\ reqs[1].calls[3].payload.messages[1].content = SystemPrompt("banking")

\* C22: every coroutine that has started posted a schema request of its own
\* as its first call, and the system prompt of each of its completion
\* requests is built from the rows that request returned to it.
C22_SchemaNeverCached ==
    \A i \in DOMAIN reqs :
        /\ reqs[i].pc # "start" =>
            /\ Len(reqs[i].calls) >= 1
            /\ reqs[i].calls[1] = SchemaCallFor(reqs[i].port)
        /\ \A k \in 2..Len(reqs[i].calls) :
            /\ reqs[i].calls[k].url = "XAI_API_URL"
            /\ Len(reqs[i].resps) >= 1
            /\ reqs[i].calls[k].payload.messages[1].content
                   = SystemPrompt(reqs[i].resps[1].rows)

\* a coroutine has finished with one schema, and a later one, given another
\* schema by its own fetch, has posted its completion request with that one
C22_Witness ==
    /\ reqs # <<>>
    /\ reqs[1].pc = "done"
    /\ reqs[1].table_structure = "banking"
    /\ reqs[2].pc = "first_wait"
    /\ reqs[2].calls[1].url = "SCHEMA_API_URL"
    /\ reqs[2].resps[1].rows = "retail"
    /\ reqs[2].calls[2].payload.messages[1].content = SystemPrompt("retail")

\* the execution requests among the requests posted for the instruction
ExecutionCalls == {k \in DOMAIN cli_calls : cli_calls[k].url = "exec_sql_url"}

\* the answer trimmed and lower-cased is 'yes'
AnswerIsYes(answer) == Lower(Strip(answer)) = <<"yes">>

\* run is inside execute_sql
InExecuteSql == cli_pc \in {"execution_call", "execution_wait", "execution_answered"}

\* C23: at most one execution request is posted per instruction; execute_sql
\* is entered, and a request posted, only when the generation result's
\* sql_query, stripped of quotes, is not empty and the answer at the
\* confirmation prompt, trimmed and lower-cased, is 'yes'; the request
\* carries the stripped statement.  A result whose stripped sql_query is
\* empty, and an answer that is not 'yes', lead back to the instruction
\* prompt without a request.
C23_ExecuteOnlyOnYes ==
    /\ [](/\ Cardinality(ExecutionCalls) <= 1
          /\ cli_pc \in {"execution_wait", "execution_answered"} => ExecutionCalls # {}
          /\ (InExecuteSql \/ ExecutionCalls # {}) =>
                /\ cli_nl2sql_result.kind = "result"
                /\ StripSet(cli_nl2sql_result.sql_query, {"\""}) # <<>>
                /\ AnswerIsYes(cli_answer)
          /\ ExecutionCalls # {} =>
                cli_calls[Len(cli_calls)]
                    = ExecutionRequest(StripSet(cli_nl2sql_result.sql_query, {"\""})))
    /\ [][/\ (cli_pc = "confirmation_prompt" /\ ~AnswerIsYes(cli_answer'))
                => (cli_pc' = "instruction_prompt" /\ cli_calls' = cli_calls)
          /\ (/\ cli_pc = "generation_answered"
              /\ cli_pc' \notin {"generation_answered", "sys_exit"}
              /\ cli_nl2sql_result'.kind = "result"
              /\ StripSet(cli_nl2sql_result'.sql_query, {"\""}) = <<>>)
                => (cli_pc' = "instruction_prompt" /\ cli_calls' = cli_calls)
          /\ (ExecutionCalls' # ExecutionCalls /\ ExecutionCalls' # {})
                => cli_pc = "execution_call"]_vars

\* a statement generated inside quotes was confirmed with ' YES' and is on
\* its way to the execution endpoint, stripped, while the dots are shown
C23_Witness ==
    /\ cli_pc = "execution_wait"
    /\ cli_nl2sql_result.sql_query = <<"\"", "S", "\"">>
    /\ cli_answer = <<" ", "YES">>
    /\ cli_calls = <<GenerationRequest(cli_query), ExecutionRequest(<<"S">>)>>
    /\ loading
    /\ anim_pc = "grow_sleep"

\* with_loading_animation is not between its first and its last line
OutsideAnimation == main_pc \in {"start", "returned", "propagated"}

\* C24: once the operation has returned or raised, the flag is cleared, the
\* animation thread leaves its loops and terminates, and only then does
\* with_loading_animation return or let the exception go on; outside
\* with_loading_animation no animation thread is running.
C24_AnimationStops ==
    /\ [](OutsideAnimation => (anim_pc \in {"none", "terminated"} /\ ~loading))
    /\ [](main_pc = "join" => ~loading)
    /\ (main_pc = "finally") ~>
           (/\ ~loading
            /\ anim_pc = "terminated"
            /\ main_pc = (IF operation = "returns" THEN "returned" ELSE "propagated"))

\* the operation raised while the thread was in the middle of the shrinking
\* dots; the thread broke out and ended, and the exception went on
C24_Witness ==
    /\ main_pc = "propagated"
    /\ operation = "raises"
    /\ anim_pc = "terminated"
    /\ anim_i = 5
    /\ ~loading

====
